---- MODULE Spec2Model ----
(***************************************************************************)
(* Model of the BECoM time-tracking application (src/app.py).              *)
(*                                                                         *)
(* State: the `pointages` table and the request handlers in flight (the    *)
(* bag `inflight`: what each handler loaded and what it is about to        *)
(* commit).  The wall clock is logical: it reads the number of the request *)
(* being served, one tick being half a minute.                             *)
(*                                                                         *)
(* A handler that reads a row and later commits is two steps: the query    *)
(* (line 163 / 213) and the commit (line 173 / 219).  Nothing in the       *)
(* source holds a lock between the two, so the handlers of other worker    *)
(* threads may run in between.  At commit the ORM's unit of work emits an  *)
(* INSERT for a new object, or an UPDATE ... WHERE id = <pk> carrying only *)
(* the columns whose value differs from the value that was loaded.         *)
(***************************************************************************)
EXTENDS Integers, Sequences, FiniteSets, Bags, TLC

VARIABLES
  pointages,   \* the rows of the `pointages` table
  inflight,    \* the handlers between their query and their commit
  last,        \* the response returned most recently
  lastExport,  \* the last run of export_pdfs
  nreq         \* the number of requests accepted so far

vars == <<pointages, inflight, last, lastExport, nreq>>

(* ------------------------------ bounds -------------------------------- *)
MaxWorkers == 2      \* request handlers that can be in flight together
MaxRequests == 4     \* requests served in one behaviour

(* --------------------------- program constants ------------------------ *)
NULL == 0            \* SQL NULL of a nullable Integer/DateTime column, and "no row"

Shifts == {"jour", "nuit", "deplacement"}
Actions == {"valide", "refuse"}

\* The users table: the seeded admin, and an employee added with create-user.
users ==
  { [id |-> 1, username |-> "admin.admin", role |-> "admin"],
    [id |-> 2, username |-> "doe.john", role |-> "employee"] }

UserIds == {u.id : u \in users}

\* load_user: the row of the session's user id
load_user(uid) == CHOOSE u \in users : u.id = uid

(* ------------------------------ parsing ------------------------------- *)
Digits == {"0", "1", "2", "3", "4", "5", "6", "7", "8", "9"}

DigitVal(c) ==
  CASE c = "0" -> 0 [] c = "1" -> 1 [] c = "2" -> 2 [] c = "3" -> 3
    [] c = "4" -> 4 [] c = "5" -> 5 [] c = "6" -> 6 [] c = "7" -> 7
    [] c = "8" -> 8 [] c = "9" -> 9

\* A string is a sequence of one-character strings.
IsNumeral(s) == Len(s) > 0 /\ \A i \in 1 .. Len(s) : s[i] \in Digits

RECURSIVE NumeralVal(_)
NumeralVal(s) ==
  IF Len(s) = 0 THEN 0
  ELSE 10 * NumeralVal(SubSeq(s, 1, Len(s) - 1)) + DigitVal(s[Len(s)])

\* request.form.get(k): <<v>> when the field was sent, <<>> (None) otherwise
FormGet(form, k) == IF k \in DOMAIN form THEN <<form[k]>> ELSE <<>>

\* int(x): raises on None (TypeError) and on a string that is no numeral
\* (ValueError); the fields posted here are digit strings or letters
IntRaises(x) == x = <<>> \/ ~IsNumeral(x[1])
IntOf(x) == NumeralVal(x[1])

IsLeap(y) == (y % 4 = 0 /\ y % 100 # 0) \/ y % 400 = 0

\* calendar.monthrange(year, month)[1]
DaysInMonth(y, m) ==
  IF m = 2 THEN (IF IsLeap(y) THEN 29 ELSE 28)
  ELSE IF m \in {4, 6, 9, 11} THEN 30 ELSE 31

\* Split a string at its "-" characters.
RECURSIVE SplitDash(_)
SplitDash(s) ==
  IF \A i \in 1 .. Len(s) : s[i] # "-" THEN <<s>>
  ELSE LET k == CHOOSE i \in 1 .. Len(s) :
                  s[i] = "-" /\ \A j \in 1 .. (i - 1) : s[j] # "-"
       IN <<SubSeq(s, 1, k - 1)>> \o SplitDash(SubSeq(s, k + 1, Len(s)))

\* datetime.strptime(day_str, "%Y-%m-%d").date() raises
StrptimeRaises(x) ==
  \/ x = <<>>
  \/ LET f == SplitDash(x[1]) IN
       \/ Len(f) # 3
       \/ ~(IsNumeral(f[1]) /\ Len(f[1]) = 4)
       \/ ~(IsNumeral(f[2]) /\ Len(f[2]) \in {1, 2})
       \/ ~(IsNumeral(f[3]) /\ Len(f[3]) \in {1, 2})
       \/ NumeralVal(f[1]) < 1
       \/ NumeralVal(f[2]) \notin 1 .. 12
       \/ NumeralVal(f[3]) \notin 1 .. DaysInMonth(NumeralVal(f[1]), NumeralVal(f[2]))

\* the parsed date, <<year, month, day>>
Strptime(x) ==
  LET f == SplitDash(x[1]) IN <<NumeralVal(f[1]), NumeralVal(f[2]), NumeralVal(f[3])>>

\* p.day.strftime("%d/%m/%Y")
StrftimeDay(d) == <<d[3], "/", d[2], "/", d[1]>>

\* datetime.now().strftime('%d/%m/%Y %H:%M'): the clock, in ticks of 30 s,
\* truncated to the minute
StrftimeMinute(t) == (30 * t) \div 60

(* --------------------------- the pointages table ---------------------- *)
\* A row of `pointages`.  created_at is left out: it is written by the INSERT
\* and no handler reads it.
\* "no row": what .first() and db.get() return when nothing matches
NoRow ==
  [id |-> NULL, user_id |-> NULL, day |-> <<>>, shift |-> "", status |-> "",
   validated_by |-> NULL, validated_at |-> NULL]

\* Pointage(user_id=..., day=..., shift=..., status="en_attente"), not yet flushed
NewPointage(uid, d, sh) ==
  [id |-> NULL, user_id |-> uid, day |-> d, shift |-> sh, status |-> "en_attente",
   validated_by |-> NULL, validated_at |-> NULL]

MaxOf(S) == CHOOSE x \in S : \A y \in S : y <= x

\* the INTEGER PRIMARY KEY the database assigns to an inserted row
NextId(rows) == IF rows = {} THEN 1 ELSE MaxOf({r.id : r \in rows}) + 1

\* db.query(Pointage).filter_by(user_id=uid, day=d).first()
QueryUserDay(rows, uid, d) ==
  LET m == {r \in rows : r.user_id = uid /\ r.day = d}
  IN IF m = {} THEN NoRow ELSE CHOOSE r \in m : \A q \in m : r.id <= q.id

\* db.get(Pointage, pid)
DbGet(rows, pid) ==
  IF \E r \in rows : r.id = pid THEN CHOOSE r \in rows : r.id = pid ELSE NoRow

\* (mutant) the table created without the uniqueness constraint
UniqueViolationOff(rows, r) == FALSE

\* UniqueConstraint("user_id", "day"): the INSERT of r is refused
UniqueViolation(rows, r) ==
  \E q \in rows : q.user_id = r.user_id /\ q.day = r.day

\* INSERT at flush: the database assigns the id
FlushInsert(rows, obj) ==
  rows \cup {[obj EXCEPT !.id = NextId(rows)]}

\* (mutant) the UPDATE leaves out the validated_by column
FlushUpdateNoValidator(rows, loaded, obj) ==
  { IF r.id # loaded.id THEN r
    ELSE [r EXCEPT
           !.shift = IF obj.shift # loaded.shift THEN obj.shift ELSE @,
           !.status = IF obj.status # loaded.status THEN obj.status ELSE @,
           !.validated_at =
              IF obj.validated_at # loaded.validated_at THEN obj.validated_at ELSE @]
    : r \in rows }

\* UPDATE at flush: only the columns whose value differs from the loaded one
\* are written, to the row with the loaded primary key.
FlushUpdate(rows, loaded, obj) ==
  { IF r.id # loaded.id THEN r
    ELSE [r EXCEPT
           !.shift = IF obj.shift # loaded.shift THEN obj.shift ELSE @,
           !.status = IF obj.status # loaded.status THEN obj.status ELSE @,
           !.validated_by =
              IF obj.validated_by # loaded.validated_by THEN obj.validated_by ELSE @,
           !.validated_at =
              IF obj.validated_at # loaded.validated_at THEN obj.validated_at ELSE @]
    : r \in rows }

(* ------------------------------ responses ----------------------------- *)
\* no export has run yet
NoExport == [year |-> 0, month |-> 0, docs |-> {}, fresh |-> FALSE]

\* A commit that changes the table makes the last export out of date.
Stale(rows) ==
  IF rows = pointages THEN lastExport ELSE [lastExport EXCEPT !.fresh = FALSE]

\* A response: the route, the HTTP status and the error text (written without
\* accents); 500 is the framework's answer to an exception no handler catches.
NoResp == [op |-> "", code |-> 0, error |-> ""]
Resp(op, code, error) == [op |-> op, code |-> code, error |-> error]

\* The handler returns r without touching the database.
Reply(r) ==
  /\ last' = r
  /\ UNCHANGED <<pointages, inflight>>

\* The handler `op` of user uid has queried `loaded` and changed it to `obj`;
\* its commit is the next step of this handler.
Proceed(op, uid, loaded, obj) ==
  /\ inflight' = inflight (+)
                   SetToBag({[op |-> op, user_id |-> uid, loaded |-> loaded, obj |-> obj]})
  /\ UNCHANGED <<pointages, last>>

\* The handler h leaves with its response.
Leave(h, r) ==
  /\ inflight' = inflight (-) SetToBag({h})
  /\ last' = r

\* datetime.utcnow() / datetime.now() in the handler of the request being
\* accepted: the requests are numbered from 1
utcnow == nreq + 1

\* A worker thread is free to serve one more request.
Accept ==
  /\ BagCardinality(inflight) < MaxWorkers
  /\ nreq < MaxRequests
  /\ nreq' = nreq + 1

(* ------------------------------- /pointe ------------------------------ *)
\* (mutant) the handler without the check of line 166
EditLockedNever(p) == FALSE

\* line 166: an existing entry may be edited only if it is not validated
EditLocked(p) == p.status = "valide"

\* pointe(), lines 152-172: validation, the query, and the changes to p
Pointe(uid, form) ==
  /\ Accept
  /\ LET day_str == FormGet(form, "day")
         shift == FormGet(form, "shift")
     IN IF shift = <<>> \/ shift[1] \notin Shifts
        THEN Reply(Resp("pointe", 400, "Choix invalide"))
        ELSE IF StrptimeRaises(day_str)
        THEN Reply(Resp("pointe", 400, "Date invalide"))
        ELSE LET chosen == Strptime(day_str)
                 p == QueryUserDay(pointages, uid, chosen)
             IN IF p # NoRow
                THEN IF EditLocked(p)
                     THEN Reply(Resp("pointe", 400, "Jour deja valide"))
                     ELSE Proceed("pointe", uid, p,
                                  [p EXCEPT !.shift = shift[1], !.status = "en_attente"])
                ELSE Proceed("pointe", uid, NoRow, NewPointage(uid, chosen, shift[1]))
  /\ UNCHANGED lastExport

\* pointe(), line 173: db.commit(), then the ok response
PointeCommit(h) ==
  /\ h.op = "pointe"
  /\ IF h.loaded = NoRow
     THEN IF UniqueViolation(pointages, h.obj)
          THEN /\ Leave(h, Resp("pointe", 500, "IntegrityError"))
               /\ UNCHANGED pointages
          ELSE /\ pointages' = FlushInsert(pointages, h.obj)
               /\ Leave(h, Resp("pointe", 200, ""))
     ELSE /\ pointages' = FlushUpdate(pointages, h.loaded, h.obj)
          /\ Leave(h, Resp("pointe", 200, ""))
  /\ lastExport' = Stale(pointages')
  /\ UNCHANGED nreq

(* ---------------------------- /admin/valide --------------------------- *)
\* (mutant) is_admin() accepts both roles
is_adminAnyRole(uid) == load_user(uid).role \in {"admin", "employee"}

\* (mutant) is_admin() tests only that the caller is logged in
is_adminLoggedIn(uid) == uid \in UserIds

\* is_admin(): the caller is logged in, so only the role decides
is_admin(uid) == load_user(uid).role = "admin"

\* admin_valide(), lines 206-218
AdminValide(uid, form) ==
  /\ Accept
  /\ LET pid == FormGet(form, "pid")
         action == FormGet(form, "action")
     IN IF ~is_admin(uid)
        THEN Reply(Resp("admin_valide", 403, "Non autorise"))
        ELSE IF IntRaises(pid)
        THEN Reply(Resp("admin_valide", 500,
                        IF pid = <<>> THEN "TypeError" ELSE "ValueError"))
        ELSE IF action = <<>> \/ action[1] \notin Actions
        THEN Reply(Resp("admin_valide", 400, "Action invalide"))
        ELSE LET p == DbGet(pointages, IntOf(pid))
             IN IF p = NoRow
                THEN Reply(Resp("admin_valide", 404, "Pointage introuvable"))
                ELSE Proceed("admin_valide", uid, p,
                             [p EXCEPT !.status = action[1],
                                       !.validated_by = uid,
                                       !.validated_at = utcnow])
  /\ UNCHANGED lastExport

\* admin_valide(), line 219: db.commit(), then the ok response
AdminCommit(h) ==
  /\ h.op = "admin_valide"
  /\ pointages' = FlushUpdate(pointages, h.loaded, h.obj)
  /\ Leave(h, Resp("admin_valide", 200, ""))
  /\ lastExport' = Stale(pointages')
  /\ UNCHANGED nreq

(* ------------------------------ PDF export ---------------------------- *)
\* date comparison, on <<year, month, day>>
DateLE(a, b) ==
  \/ a[1] < b[1]
  \/ a[1] = b[1] /\ a[2] < b[2]
  \/ a[1] = b[1] /\ a[2] = b[2] /\ a[3] <= b[3]

\* .order_by(Pointage.day.asc()).all()
RECURSIVE OrderByDay(_)
OrderByDay(rows) ==
  IF rows = {} THEN <<>>
  ELSE LET r == CHOOSE x \in rows : \A y \in rows : DateLE(x.day, y.day)
       IN <<r>> \o OrderByDay(rows \ {r})

ShiftLabel(sh) ==
  CASE sh = "jour" -> "Jour" [] sh = "nuit" -> "Nuit" [] sh = "deplacement" -> "Deplacement"

StatusLabel(st) ==
  CASE st = "en_attente" -> "En attente" [] st = "valide" -> "Valide"
    [] st = "refuse" -> "Refuse"

\* The strings drawn on the canvas, in drawing order.  A month has at most 31
\* rows, fewer than a page holds, so the page break of line 267 is never taken.
generate_monthly_pdf_for_user(rows, user, year, month, t) ==
  LET first_day == <<year, month, 1>>
      last_day == <<year, month, DaysInMonth(year, month)>>
      pts == OrderByDay({r \in rows : /\ r.user_id = user.id
                                      /\ DateLE(first_day, r.day)
                                      /\ DateLE(r.day, last_day)})
  IN << <<"Recapitulatif de pointage", month, year>>,
        <<"Employe", user.username>>,
        <<"Genere le", StrftimeMinute(t)>>,
        <<"Date", "Choix", "Statut">> >>
     \o (IF pts = <<>>
         THEN << <<"Aucun pointage pour ce mois.">> >>
         ELSE [i \in 1 .. Len(pts) |->
                 <<StrftimeDay(pts[i].day), ShiftLabel(pts[i].shift),
                   StatusLabel(pts[i].status)>>])

\* export_pdfs(): one document per employee; the session only reads.
\* lastExport records the run: its arguments, its documents, and whether the
\* table still holds the rows it read (fresh).
ExportPdfs(uid, args) ==
  /\ Accept
  /\ LET year == FormGet(args, "year")
         month == FormGet(args, "month")
     IN IF ~is_admin(uid)
        THEN /\ Reply(Resp("export_pdfs", 302, "Acces reserve a l'admin."))
             /\ UNCHANGED lastExport
        ELSE IF IntRaises(year) \/ IntRaises(month)
        THEN /\ Reply(Resp("export_pdfs", 500, "ValueError"))
             /\ UNCHANGED lastExport
        ELSE IF IntOf(month) \notin 1 .. 12 \/ IntOf(year) \notin 1 .. 9999
        THEN /\ Reply(Resp("export_pdfs", 500, "ValueError"))
             /\ UNCHANGED lastExport
        ELSE /\ Reply(Resp("export_pdfs", 200, ""))
             /\ lastExport' =
                  [year |-> IntOf(year), month |-> IntOf(month), fresh |-> TRUE,
                   docs |-> { [user_id |-> u.id,
                               doc |-> generate_monthly_pdf_for_user(
                                          pointages, u, IntOf(year), IntOf(month), utcnow)]
                              : u \in {x \in users : x.role = "employee"} }]

(* ------------------------------- requests ----------------------------- *)
Str2024_02_29 == <<"2", "0", "2", "4", "-", "0", "2", "-", "2", "9">>
Str2024_02_30 == <<"2", "0", "2", "4", "-", "0", "2", "-", "3", "0">>

\* the forms a browser or a script may post to /pointe
PointeForms ==
  { [day |-> Str2024_02_29, shift |-> "jour"],
    [day |-> Str2024_02_29, shift |-> "nuit"],
    [day |-> Str2024_02_29, shift |-> "autre"],
    [day |-> Str2024_02_30, shift |-> "jour"],
    [shift |-> "jour"],
    [day |-> Str2024_02_29] }

\* the forms posted to /admin/valide
AdminForms ==
  { [pid |-> p, action |-> a] : p \in {<<"1">>, <<"2">>}, a \in Actions }
  \cup { [pid |-> <<"1">>, action |-> "supprime"],
         [pid |-> <<"9">>, action |-> "valide"],
         [pid |-> <<"a", "b">>, action |-> "valide"],
         [action |-> "valide"],
         [pid |-> <<"1">>] }

\* the query strings of /admin/export_pdfs
ExportArgs ==
  { [year |-> <<"2", "0", "2", "4">>, month |-> <<"2">>],
    [year |-> <<"2", "0", "2", "4">>, month |-> <<"1", "3">>],
    [year |-> <<"2", "0", "2", "4">>] }

(* ---------------------------- specification --------------------------- *)
Handlers == BagToSet(inflight)

Init ==
  /\ pointages = {}
  /\ inflight = EmptyBag
  /\ last = NoResp
  /\ lastExport = NoExport
  /\ nreq = 0

Next ==
  \/ \E uid \in UserIds, form \in PointeForms : Pointe(uid, form)
  \/ \E h \in Handlers : PointeCommit(h)
  \/ \E uid \in UserIds, form \in AdminForms : AdminValide(uid, form)
  \/ \E h \in Handlers : AdminCommit(h)
  \/ \E uid \in UserIds, args \in ExportArgs : ExportPdfs(uid, args)

Spec == Init /\ [][Next]_vars

(* ------------------------------ properties ---------------------------- *)
\* the stored entry of (uid, d) in rows, NoRow when there is none
Entry(rows, uid, d) == QueryUserDay(rows, uid, d)

\* the handler h of `op` commits in this step
Commits(h, op) == h.op = op /\ inflight' = inflight (-) SetToBag({h})

IsValidPointeForm(form) ==
  /\ "shift" \in DOMAIN form /\ form.shift \in Shifts
  /\ ~StrptimeRaises(FormGet(form, "day"))

ValidPointeForms == {form \in PointeForms : IsValidPointeForm(form)}

DayOfForm == [form \in ValidPointeForms |-> Strptime(FormGet(form, "day"))]

NonAdmins == {u.id : u \in {x \in users : x.role # "admin"}}

\* C1: in every reachable state there is at most one stored entry for each
\* (user, day) pair.
C1_OneEntryPerUserDay ==
  \A r \in pointages, q \in pointages :
    (r.user_id = q.user_id /\ r.day = q.day) => r = q

\* Two clock-ins of one user for one day raced, and one INSERT was refused.
C1_Witness ==
  /\ last = Resp("pointe", 500, "IntegrityError")
  /\ pointages # {}

\* C2: a clock-in for a day whose stored entry of the caller is approved fails
\* with the conflict error and leaves the table unchanged.
C2_ApprovedDayConflict ==
  [][\A uid \in UserIds, form \in ValidPointeForms :
       ( /\ nreq' # nreq
         /\ Entry(pointages, uid, DayOfForm[form]).status = "valide"
         /\ Pointe(uid, form) )
       => /\ last' = Resp("pointe", 400, "Jour deja valide")
          /\ inflight' = inflight
          /\ pointages' = pointages]_vars

C2_Witness ==
  /\ last = Resp("pointe", 400, "Jour deja valide")
  /\ \E r \in pointages : r.status = "valide"

\* C3: a clock-in with a valid shift and date, for a day on which the caller
\* had no entry or a pending entry when the handler read it, returns ok and
\* leaves the caller's entry with the submitted shift and status pending.
C3_ClockInSucceeds ==
  [][\A h \in Handlers :
       ( /\ Commits(h, "pointe")
         /\ (h.loaded = NoRow \/ h.loaded.status = "en_attente") )
       => /\ last' = Resp("pointe", 200, "")
          /\ LET e == Entry(pointages', h.user_id, h.obj.day)
             IN e.shift = h.obj.shift /\ e.status = "en_attente"]_vars

\* C4: a successful admin decision leaves the entry with the requested
\* status, validated_by = the deciding admin, and validated_at set.
C4_DecisionStamped ==
  [][\A h \in Handlers :
       ( /\ Commits(h, "admin_valide")
         /\ last' = Resp("admin_valide", 200, "") )
       => LET e == DbGet(pointages', h.loaded.id)
          IN /\ e.status = h.obj.status
             /\ e.validated_by = h.user_id
             /\ e.validated_at # NULL]_vars

\* C5: an admin-decision request of a caller whose role is not admin fails
\* with 403 whatever the form holds, and no entry changes.
C5_NonAdminForbidden ==
  [][\A uid \in NonAdmins, form \in AdminForms :
       ( /\ nreq' # nreq
         /\ AdminValide(uid, form) )
       => /\ last' = Resp("admin_valide", 403, "Non autorise")
          /\ inflight' = inflight
          /\ pointages' = pointages]_vars

C5_Witness ==
  /\ last = Resp("admin_valide", 403, "Non autorise")
  /\ pointages # {}

\* C6: no clock-in commit changes the shift or the status of an entry whose
\* stored status is approved when the commit happens.
C6_ApprovedImmutableToClockIn ==
  [][\A h \in Handlers :
       Commits(h, "pointe")
       => \A r \in pointages :
            r.status = "valide"
            => \E q \in pointages' :
                 q.id = r.id /\ q.shift = r.shift /\ q.status = r.status]_vars

\* an entry's status becomes a decision in this step
Decided(r, q) == r.id = q.id /\ q.status \in Actions /\ q.status # r.status

AdminCommits ==
  \E h \in Handlers :
    Commits(h, "admin_valide") /\ load_user(h.user_id).role = "admin"

\* C7 (as stated): every step in which an entry's status becomes approved or
\* rejected is an admin decision of an admin, and the status before was pending.
C7_DecisionFromPendingOnly ==
  [][\A r \in pointages, q \in pointages' :
       Decided(r, q) => (AdminCommits /\ r.status = "en_attente")]_vars

\* C7 (amended): every step in which an entry's status becomes approved or
\* rejected is an admin decision of an admin, whatever the status before; an
\* entry is created pending.
C7_DecisionByAdminOnly ==
  [][/\ \A r \in pointages, q \in pointages' : Decided(r, q) => AdminCommits
     /\ \A q \in pointages' :
          (\A r \in pointages : r.id # q.id) => q.status = "en_attente"]_vars

C7_Witness ==
  /\ last = Resp("admin_valide", 200, "")
  /\ \E r \in pointages : r.status \in Actions /\ r.validated_at > 1

\* C8: every pointe and admin_valide request ends in ok or in a 400, 403 or
\* 404 JSON error; none ends in an unhandled failure.
C8_NoUnhandledFailure ==
  last.op \in {"pointe", "admin_valide"} => last.code \in {200, 400, 403, 404}

\* C9 (as stated): two exports of the same month on the same stored rows
\* produce the same documents, whenever they run.
C9_PdfDeterministic ==
  [][( /\ last' = Resp("export_pdfs", 200, "") /\ nreq' # nreq
        /\ lastExport.fresh
        /\ lastExport'.year = lastExport.year
        /\ lastExport'.month = lastExport.month )
     => lastExport'.docs = lastExport.docs]_vars

\* C10 (as stated): an entry carries validated_by and validated_at exactly
\* when its status is approved or rejected.
C10_StampedIffDecided ==
  \A r \in pointages :
    /\ r.status \in Actions => (r.validated_by # NULL /\ r.validated_at # NULL)
    /\ r.status = "en_attente" => (r.validated_by = NULL /\ r.validated_at = NULL)

\* C10 (amended): a decided entry carries both validated_by and validated_at,
\* and an entry carries one exactly when it carries the other; a pending entry
\* may carry both, kept from a rejection before the clock-in edit.
C10_DecidedIsStamped ==
  \A r \in pointages :
    /\ r.status \in Actions => (r.validated_by # NULL /\ r.validated_at # NULL)
    /\ r.validated_by = NULL <=> r.validated_at = NULL

C10_Witness ==
  \E r \in pointages :
    r.status = "en_attente" /\ r.validated_by # NULL /\ r.validated_at # NULL

====
